---- MODULE Spec2Model ----
(***************************************************************************)
(* Model of batch-upgrade-npm-packages (lib/index.js): the version         *)
(* comparator, the package.json editor, the per-repository pipeline        *)
(* updateRepo and the batch coordinator updatePackages; and of its front   *)
(* ends: bin/cli.js, the script batch-upgrade-npm-pkgs.sh and the MCP      *)
(* tool handler that runs the script.                                      *)
(*                                                                         *)
(* Strings that the code inspects character by character (version ranges)  *)
(* are sequences of one-character strings.  A package.json file is a       *)
(* record: kind "missing" (no file), "garbage" (not parsable as JSON) or   *)
(* "json" with the three dependency sections; fmt tells whether the bytes  *)
(* are what JSON.stringify(obj, null, 2) + newline produces.               *)
(***************************************************************************)
EXTENDS Integers, Sequences, FiniteSets, TLC

\* ------------------------------------------------------------------------
\* Bounds of the model
\* ------------------------------------------------------------------------
\* longest repository list of a batch request
MaxRepos == 3

\* latest instant of the wall clock, in ticks
MaxNow == 3

\* ------------------------------------------------------------------------
\* Version strings and the semver library boundary
\* ------------------------------------------------------------------------
Digits == {"0", "1", "2", "3", "4", "5", "6", "7", "8", "9"}

DigitVal(c) ==
  CASE c = "0" -> 0 [] c = "1" -> 1 [] c = "2" -> 2 [] c = "3" -> 3
    [] c = "4" -> 4 [] c = "5" -> 5 [] c = "6" -> 6 [] c = "7" -> 7
    [] c = "8" -> 8 [] OTHER -> 9

\* a comparator that leaves the range character in place
StripNothing(s) == s

\* current.replace(/^[\^~=]/, ''): at most one leading range character goes
StripPrefix(s) ==
  IF Len(s) > 0 /\ s[1] \in {"^", "~", "="} THEN Tail(s) ELSE s

RECURSIVE SplitDots(_)
\* the dot-separated components of a character sequence
SplitDots(s) ==
  IF \A k \in 1..Len(s) : s[k] # "."
  THEN << s >>
  ELSE LET d == CHOOSE k \in 1..Len(s) :
                  s[k] = "." /\ \A j \in 1..(k - 1) : s[j] # "."
       IN  << SubSeq(s, 1, d - 1) >> \o SplitDots(SubSeq(s, d + 1, Len(s)))

\* a numeric identifier of semver: 0 | [1-9][0-9]*
IsNumericId(c) ==
  /\ Len(c) > 0
  /\ \A k \in 1..Len(c) : c[k] \in Digits
  /\ (Len(c) > 1 => c[1] # "0")

RECURSIVE NumVal(_)
NumVal(c) ==
  IF Len(c) = 0 THEN 0
  ELSE 10 * NumVal(SubSeq(c, 1, Len(c) - 1)) + DigitVal(c[Len(c)])

\* new SemVer(v) in strict mode: optional leading v, then exactly three
\* numeric identifiers (pre-release and build suffixes are not modelled)
SemverBody(s) == IF Len(s) > 0 /\ s[1] = "v" THEN Tail(s) ELSE s

SemverValid(s) ==
  LET parts == SplitDots(SemverBody(s))
  IN  Len(parts) = 3 /\ \A k \in 1..3 : IsNumericId(parts[k])

SemverTuple(s) ==
  LET parts == SplitDots(SemverBody(s))
  IN  << NumVal(parts[1]), NumVal(parts[2]), NumVal(parts[3]) >>

\* major.minor.patch precedence, numeric per component
TupleGte(x, y) ==
  \/ x[1] > y[1]
  \/ x[1] = y[1] /\ x[2] > y[2]
  \/ x[1] = y[1] /\ x[2] = y[2] /\ x[3] >= y[3]

\* semver.gte(a, b): throws a TypeError unless both arguments parse
SemverGte(a, b) ==
  IF SemverValid(a) /\ SemverValid(b)
  THEN [threw |-> FALSE, value |-> TupleGte(SemverTuple(a), SemverTuple(b))]
  ELSE [threw |-> TRUE, value |-> FALSE]

\* the comparison with its arguments exchanged
versionIsLowerOrEqual(current, target) ==
  SemverGte(StripPrefix(target), StripPrefix(current))

\* versionIsHigherOrEqual(current, target)
versionIsHigherOrEqual(current, target) ==
  SemverGte(StripPrefix(current), StripPrefix(target))

\* ------------------------------------------------------------------------
\* package.json
\* ------------------------------------------------------------------------
Sections == << "dependencies", "devDependencies", "peerDependencies" >>

SectionNames == {Sections[k] : k \in 1..Len(Sections)}

Pkgs == {"a", "b"}

NoEntry == [has |-> FALSE, v |-> << >>]

Entry(v) == [has |-> TRUE, v |-> v]

NoSection == [present |-> FALSE, deps |-> [p \in Pkgs |-> NoEntry]]

\* a section object holding the given entry per package name
Section(f) == [present |-> TRUE, deps |-> f]

One(p, v) == [q \in Pkgs |-> IF q = p THEN Entry(v) ELSE NoEntry]

Json(d, v, p) ==
  [kind |-> "json", fmt |-> "two",
   obj |-> [dependencies |-> d, devDependencies |-> v, peerDependencies |-> p]]

EmptyObj ==
  [dependencies |-> NoSection, devDependencies |-> NoSection,
   peerDependencies |-> NoSection]

MissingFile == [kind |-> "missing", fmt |-> "two", obj |-> EmptyObj]

GarbageFile == [kind |-> "garbage", fmt |-> "other", obj |-> EmptyObj]

\* packageJson[section][pkg] as a JavaScript value: undefined when the
\* section or the key is absent
HasKey(obj, section, pkg) ==
  obj[section].present /\ pkg \in Pkgs /\ obj[section].deps[pkg].has

\* truthiness of packageJson[section] && packageJson[section][pkg]: the
\* empty string is falsy
Truthy(obj, section, pkg) ==
  HasKey(obj, section, pkg) /\ Len(obj[section].deps[pkg].v) > 0

\* packageExists(pkg)
packageExists(file, pkg) ==
  /\ file.kind = "json"
  /\ \E k \in 1..Len(Sections) : Truthy(file.obj, Sections[k], pkg)

NullInfo == [found |-> FALSE, section |-> "", version |-> << >>]

\* getCurrentVersion(pkg): first section in the fixed order that holds pkg
getCurrentVersion(file, pkg) ==
  IF file.kind # "json" \/ ~ \E k \in 1..Len(Sections) : Truthy(file.obj, Sections[k], pkg)
  THEN NullInfo
  ELSE LET k == CHOOSE n \in 1..Len(Sections) :
                  /\ Truthy(file.obj, Sections[n], pkg)
                  /\ \A m \in 1..(n - 1) : ~ Truthy(file.obj, Sections[m], pkg)
       IN  [found |-> TRUE, section |-> Sections[k],
            version |-> file.obj[Sections[k]].deps[pkg].v]

\* a guard that only looks at the section
EditGuardSectionOnly(file, pkg, section) ==
  /\ file.kind = "json"
  /\ section \in SectionNames
  /\ pkg \in Pkgs
  /\ file.obj[section].present

\* the guard of updatePackageJson:
\* packageJson[section] && packageJson[section][pkg] !== undefined
EditGuard(file, pkg, section) ==
  /\ file.kind = "json"
  /\ section \in SectionNames
  /\ HasKey(file.obj, section, pkg)

\* updatePackageJson(pkg, section, version); ioOk is whether writeFileSync
\* succeeds.  Result: the file afterwards and the returned boolean.
updatePackageJson(file, pkg, section, version, ioOk) ==
  IF EditGuard(file, pkg, section) /\ ioOk
  THEN [file |-> [kind |-> "json", fmt |-> "two",
                  obj |-> [file.obj EXCEPT ![section].deps[pkg] = Entry(version)]],
        ok |-> TRUE]
  ELSE [file |-> file, ok |-> FALSE]

\* ------------------------------------------------------------------------
\* Inputs: package names, version strings, manifests, requests, repositories
\* ------------------------------------------------------------------------
V_c100 == << "^", "1", ".", "0", ".", "0" >>

V_c200 == << "^", "2", ".", "0", ".", "0" >>

V_t150 == << "~", "1", ".", "5", ".", "0" >>

V_300 == << "3", ".", "0", ".", "0" >>

\* not a strict semver version after prefix stripping
V_latest == << "l", "a", "t", "e", "s", "t" >>

V_c12 == << "^", "1", ".", "2" >>

\* manifests a repository may hold on its trunk
ManifestA1 == Json(Section(One("a", V_c100)), NoSection, NoSection)

ManifestA2B1 ==
  Json(Section(One("a", V_c200)), Section(One("b", V_c100)), NoSection)

ManifestBadB1 ==
  Json(Section(One("b", V_c100)), NoSection, Section(One("a", V_latest)))

ManifestMulti ==
  [kind |-> "json", fmt |-> "other",
   obj |-> [dependencies |-> Section(One("b", V_300)),
            devDependencies |-> Section(One("a", V_t150)),
            peerDependencies |-> Section(One("a", V_300))]]

ManifestA1B1 ==
  [kind |-> "json", fmt |-> "two",
   obj |-> [dependencies |->
              Section([q \in Pkgs |-> IF q = "a" THEN Entry(V_c100) ELSE Entry(V_t150)]),
            devDependencies |-> NoSection, peerDependencies |-> NoSection]]

Manifests ==
  {ManifestA1, ManifestA1B1, ManifestA2B1, ManifestBadB1, ManifestMulti, GarbageFile,
   MissingFile}

\* requests: parallel package and version lists as the caller passes them
Requests ==
  { [packages |-> << "a" >>, versions |-> << V_c200 >>],
    [packages |-> << "a", "b" >>, versions |-> << V_c200, V_c200 >>],
    [packages |-> << "a", "b" >>, versions |-> << V_c12, V_c200 >>],
    [packages |-> << "b", "a" >>, versions |-> << V_c200, V_c12 >>],
    [packages |-> << "c", "a" >>, versions |-> << V_c200, V_c200 >>],
    [packages |-> << "c" >>, versions |-> << V_c200 >>],
    [packages |-> << "a", "b" >>, versions |-> << V_c200 >>],
    [packages |-> << >>, versions |-> << >>] }

RepoNames == << "r1", "r2", "r3", "r4" >>

Repos == {RepoNames[k] : k \in 1..Len(RepoNames)}

Min(x, y) == IF x < y THEN x ELSE y

\* repository lists of a request: the first n repositories, or the same
\* repository twice in a row
RepoLists ==
  {SubSeq(RepoNames, 1, n) : n \in 0..Min(MaxRepos, Len(RepoNames))}
    \cup {<< "r1", "r1" >>}

StartDir == "startdir"

VARIABLES
  packages,         \* options.packages of updatePackages
  versions,         \* options.versions
  repos,            \* options.repos
  ghLoggedIn,       \* whether 'gh auth status' exits 0
  bpc,              \* position of updatePackages
  ri,               \* index of the repository the for-of loop is at
  invoked,          \* repoPath of every updateRepo call made so far
  results,          \* results array of updatePackages
  outcomes,         \* history: how each finished updateRepo call ended
  summary,          \* lines printed by the summary loop
  bret,             \* return value of updatePackages
  prTitle,          \* title built from the requested packages
  prBody,           \* body built from the requested packages
  timestamp,        \* const timestamp of updatePackages
  branches,         \* history: branchName passed to each updateRepo call
  cwd,              \* process.cwd()
  disk,             \* per repository: working tree, branches, remote
  pc,               \* position of updateRepo
  cur,              \* options.repoPath of the running updateRepo
  originalDir,      \* const originalDir of updateRepo
  idx,              \* loop variable i of the package loop
  updateSuccess,    \* let updateSuccess
  updatedPackages,  \* const updatedPackages
  updatedVersions,  \* const updatedVersions
  diffOutput,       \* diffResult.output
  finalPr,          \* finalPrTitle and finalPrBody
  ret,              \* value updateRepo returned
  diag,             \* the console.error line printed before return false
  log,              \* external operations issued by the running updateRepo
  mfile,            \* package.json of a direct call of the manifest editor
  mcall,            \* the last direct call of the manifest editor and its result
  vcall,            \* the last direct call of versionIsHigherOrEqual and its result
  proc,             \* the child process and the promise of an executeCommand call
  now,              \* the wall clock new Date() reads, in ticks
  sh,               \* a run of batch-upgrade-npm-pkgs.sh under the MCP tool handler
  cli               \* a run of bin/cli.js

batchVars == << packages, versions, repos, ghLoggedIn, bpc, ri, invoked, results,
                outcomes, summary, bret, prTitle, prBody, timestamp, branches >>

runVars == << pc, cur, originalDir, idx, updateSuccess, updatedPackages,
              updatedVersions, diffOutput, finalPr, ret, diag, log >>

pipeVars == << batchVars, cwd, disk, runVars >>

editVars == << mfile, mcall, vcall, proc >>

toolVars == << now, sh, cli >>

vars == << pipeVars, editVars, toolVars >>

\* a repository directory before the batch touches it: present is whether
\* the directory exists, git whether it is a git working tree
InitialDisk(present, git, manifest, lock) ==
  [exists |-> present, git |-> git, branch |-> "main", featureExists |-> FALSE,
   mainFile |-> manifest, featFile |-> manifest, workFile |-> manifest,
   bak |-> FALSE, bakFile |-> MissingFile, nodeModules |-> TRUE,
   lockExists |-> lock, lockDirty |-> FALSE,
   staged |-> FALSE, index |-> {}, pathspec |-> {},
   commits |-> << >>, pushed |-> FALSE, prs |-> << >>]

InitialDisks ==
  {InitialDisk(TRUE, TRUE, m, TRUE) : m \in Manifests}
    \cup {InitialDisk(TRUE, TRUE, ManifestA1, FALSE),
          InitialDisk(TRUE, TRUE, ManifestA2B1, FALSE),
          InitialDisk(TRUE, FALSE, MissingFile, FALSE),
          InitialDisk(FALSE, FALSE, MissingFile, FALSE)}

\* the repositories on disk: the first one ranges over every initial state,
\* the second declares a at its target already, the third has no lockfile,
\* the fourth is a directory that is no git working tree
FirstRepoHolds(d) ==
  [r \in Repos |->
     IF r = "r1" THEN d
     ELSE IF r = "r2" THEN InitialDisk(TRUE, TRUE, ManifestA2B1, TRUE)
     ELSE IF r = "r3" THEN InitialDisk(TRUE, TRUE, ManifestA1, FALSE)
     ELSE InitialDisk(TRUE, FALSE, MissingFile, FALSE)]

\* "Update npm packages: a@x, b@y" and the bullet list of the body, as the
\* list of (name, version) pairs they are rendered from
PairList(ps, vs) ==
  [k \in 1..Len(ps) |-> [name |-> ps[k], version |-> IF k <= Len(vs) THEN vs[k] ELSE << >>]]

NoPr == [title |-> << >>, body |-> << >>]

NoCall ==
  [op |-> "none", pkg |-> "", section |-> "", version |-> << >>, before |-> MissingFile,
   ioOk |-> TRUE, ok |-> FALSE, info |-> NullInfo]

\* no comparison made yet
NoCompare ==
  [op |-> "none", cp |-> << >>, cb |-> << >>, tp |-> << >>, tb |-> << >>,
   res |-> [threw |-> FALSE, value |-> FALSE],
   bare |-> [threw |-> FALSE, value |-> FALSE]]

\* no child process spawned yet
NoProc ==
  [state |-> "none", written |-> << >>, output |-> << >>, code |-> 0, resolved |-> 0,
   result |-> [success |-> FALSE, output |-> << >>]]

\* no timestamp taken yet
NoStamp == -1

\* ticks of the wall clock in one second
TicksPerSecond == 2

\* new Date().toISOString().replace(/[^0-9]/g, '').slice(0, 14): the
\* fourteen digits yyyymmddhhmmss, the milliseconds cut off
Stamp(t) == t \div TicksPerSecond

\* the tool handler has produced no response
NoResponse ==
  [isError |-> FALSE, totalRepositories |-> 0, successfulPRs |-> 0,
   prUrls |-> << >>, fullOutput |-> << >>]

\* no script run and no tool response yet
NoSh ==
  [pc |-> "none", ri |-> 1, processed |-> << >>, created |-> << >>,
   stdout |-> << >>, code |-> 0, resp |-> NoResponse]

\* the command-line program not started
NoCli == [pc |-> "none", confirmed |-> FALSE, code |-> 0, message |-> ""]

\* the clock and the two front ends before anything runs
ToolInit == now = 0 /\ sh = NoSh /\ cli = NoCli

\* the pipeline before updatePackages is called
PipeInit ==
  /\ bpc = "start" /\ ri = 1 /\ invoked = << >> /\ results = << >>
  /\ outcomes = << >>
  /\ summary = << >> /\ bret = "none"
  /\ prTitle = << >> /\ prBody = << >>
  /\ timestamp = NoStamp /\ branches = << >>
  /\ cwd = StartDir
  /\ pc = "idle" /\ cur = "r1" /\ originalDir = StartDir /\ idx = 1
  /\ updateSuccess = FALSE /\ updatedPackages = << >> /\ updatedVersions = << >>
  /\ diffOutput = << >> /\ finalPr = NoPr /\ ret = "none" /\ diag = ""
  /\ log = << >>

Init ==
  /\ \E r \in Requests : packages = r.packages /\ versions = r.versions
  /\ repos \in RepoLists
  /\ ghLoggedIn \in BOOLEAN
  /\ \E d \in InitialDisks : disk = FirstRepoHolds(d)
  /\ PipeInit
  /\ mfile = MissingFile /\ mcall = NoCall /\ vcall = NoCompare /\ proc = NoProc
  /\ ToolInit

\* ------------------------------------------------------------------------
\* updatePackages
\* ------------------------------------------------------------------------
\* the checks without the authentication check
PreconditionsNoAuth ==
  /\ Len(packages) = Len(versions)
  /\ Len(packages) # 0
  /\ Len(repos) # 0

\* the four checks before the first repository is touched
PreconditionsPass ==
  /\ ghLoggedIn
  /\ Len(packages) = Len(versions)
  /\ Len(packages) # 0
  /\ Len(repos) # 0

CheckPreconditions ==
  /\ bpc = "start"
  /\ IF PreconditionsPass
     THEN /\ bpc' = "loop"
          /\ timestamp' = Stamp(now)
          /\ prTitle' = PairList(packages, versions)
          /\ prBody' = PairList(packages, versions)
          /\ bret' = bret
     ELSE /\ bpc' = "done"
          /\ bret' = "false"
          /\ UNCHANGED << timestamp, prTitle, prBody >>
  /\ UNCHANGED << editVars, toolVars, packages, versions, repos, ghLoggedIn, ri, invoked,
                  results, outcomes, summary, branches, cwd, disk, runVars >>

\* a loop that stops at the first failed repository
LoopStopsOnFailure ==
  /\ ri <= Len(repos)
  /\ (IF Len(results) = 0 THEN TRUE ELSE results[Len(results)].success)

\* the for-of loop has another repository to process
LoopHasNext == ri <= Len(repos)

\* a loop that calls updateRepo for the next repository without waiting for
\* the running one
LoopNeverWaits == bpc \in {"loop", "await"}

\* the loop body is not suspended in an await: the previous call has returned
LoopReady == bpc = "loop"

\* a branch name stamped again for every repository
BranchNameFresh(ts, t) == [prefix |-> "update-packages-", stamp |-> Stamp(t)]

\* const branchName = `update-packages-${timestamp}` inside the for-of loop
BranchName(ts, t) == [prefix |-> "update-packages-", stamp |-> ts]

\* await updateRepo({repoPath: repo, ...}): the call
CallUpdateRepo ==
  /\ LoopReady
  /\ LoopHasNext
  /\ bpc' = "await"
  /\ invoked' = Append(invoked, repos[ri])
  /\ branches' = Append(branches, BranchName(timestamp, now))
  /\ cur' = repos[ri]
  /\ originalDir' = cwd
  /\ pc' = "enter"
  /\ idx' = 1
  /\ updateSuccess' = FALSE /\ updatedPackages' = << >> /\ updatedVersions' = << >>
  /\ diffOutput' = << >> /\ finalPr' = NoPr /\ ret' = "none" /\ diag' = ""
  /\ log' = << >>
  /\ UNCHANGED << editVars, toolVars, packages, versions, repos, ghLoggedIn, ri, results,
                  outcomes, summary, bret, prTitle, prBody, timestamp, cwd, disk >>

\* how a finished updateRepo call ended, read off the operations it issued:
\* return true after the pull request, return true after the cleanup of the
\* else branch, or one of the return false
Outcome(l) ==
  IF Len(l) = 0 THEN "Failed"
  ELSE IF l[Len(l)].op = "gh pr create" /\ l[Len(l)].ok THEN "PrCreated"
  ELSE IF l[Len(l)].op = "git branch -D" THEN "NoChanges"
  ELSE "Failed"

\* a success flag that is set only for a run that created a pull request
SuccessOnlyWithPr(r) == r = "true" /\ Outcome(log) = "PrCreated"

\* success: result, the boolean updateRepo returned
Success(r) == r = "true"

\* results.push({ repo, success: result }); the locals of the finished call
\* are gone
RecordResult ==
  /\ bpc = "await"
  /\ pc = "returned"
  /\ results' = Append(results, [repo |-> cur, success |-> Success(ret)])
  /\ outcomes' = Append(outcomes, Outcome(log))
  /\ ri' = ri + 1
  /\ bpc' = "loop"
  /\ pc' = "idle"
  /\ idx' = 1
  /\ updateSuccess' = FALSE /\ updatedPackages' = << >> /\ updatedVersions' = << >>
  /\ diffOutput' = << >> /\ finalPr' = NoPr /\ ret' = "none" /\ diag' = ""
  /\ log' = << >>
  /\ UNCHANGED << editVars, toolVars, packages, versions, repos, ghLoggedIn, invoked,
                  summary, bret, prTitle, prBody, timestamp, branches, cwd, disk, cur,
                  originalDir >>

\* a summary that prints Success for every repository
SummaryLineAlwaysSuccess(success) == "Success"

\* if (result.success) print '<repo>: Success' else print '<repo>: Failed'
SummaryLine(success) == IF success THEN "Success" ELSE "Failed"

\* a batch that reports whether every repository succeeded
BatchReturnAllSucceeded(rs) ==
  IF \A k \in 1..Len(rs) : rs[k].success THEN "true" ELSE "false"

\* return true after the summary, whatever the results hold
BatchReturn(rs) == "true"

\* the summary loop and return true
PrintSummary ==
  /\ bpc = "loop"
  /\ ~ LoopHasNext
  /\ summary' = [k \in 1..Len(results) |->
                   [repo |-> results[k].repo,
                    line |-> SummaryLine(results[k].success)]]
  /\ bret' = BatchReturn(results)
  /\ bpc' = "done"
  /\ UNCHANGED << editVars, toolVars, packages, versions, repos, ghLoggedIn, ri, invoked,
                  results, outcomes, prTitle, prBody, timestamp, branches, cwd, disk,
                  runVars >>

\* ------------------------------------------------------------------------
\* updateRepo: helpers
\* ------------------------------------------------------------------------
D == disk[cur]

SetDisk(d) == disk' = [disk EXCEPT ![cur] = d]

\* one external operation: what was run, whether it succeeded, and the package
\* name for a package.json edit
EvArg(op, ok, arg) == [op |-> op, ok |-> ok, arg |-> arg]

Ev(op, ok) == EvArg(op, ok, "")

Logged(op, ok) == log' = Append(log, Ev(op, ok))

\* Return without the chdir back
ReturnNoRestore(r) ==
  /\ cwd' = cwd
  /\ ret' = r
  /\ pc' = "returned"

\* process.chdir(originalDir); return r  (every early return, the final
\* return and the catch block)
Return(r) ==
  /\ cwd' = originalDir
  /\ ret' = r
  /\ pc' = "returned"

\* stay in the repository and go on with the next step
Continue(next) ==
  /\ pc' = next
  /\ UNCHANGED << cwd, ret, diag >>

\* a step guarded by if (!result.success) { ...; return false; }
Gate(next, msg) ==
  IF next = "fail" THEN Return("false") /\ diag' = msg ELSE Continue(next)

\* exit codes a git command can have: never 0 outside a git working tree
GitOutcomes(d) == IF d.git THEN BOOLEAN ELSE {FALSE}

\* content of package.json at the commit the checked-out branch points to
HeadFile(d) == IF d.branch = "feature" THEN d.featFile ELSE d.mainFile

\* ------------------------------------------------------------------------
\* updateRepo: Enter, Reset, Checkout trunk, Sync, Branch
\* ------------------------------------------------------------------------
\* process.chdir(path.resolve(repoPath)); throws when the directory is absent
Enter ==
  /\ pc = "enter"
  /\ IF D.exists
     THEN /\ cwd' = cur
          /\ pc' = "reset"
          /\ ret' = ret
          /\ diag' = diag
          /\ Logged("chdir", TRUE)
     ELSE /\ Return("false")
          /\ diag' = "Error processing repository"
          /\ Logged("chdir", FALSE)
  /\ UNCHANGED << editVars, toolVars, batchVars, disk, cur, originalDir, idx, updateSuccess,
                  updatedPackages, updatedVersions, diffOutput, finalPr >>

\* a reset whose failure leaves the run waiting for ever
AfterResetHangs(ok) == IF ok THEN "checkoutMain" ELSE "waiting"

\* await executeCommand('git reset --hard HEAD'): the result is not inspected
AfterReset(ok) == "checkoutMain"

Reset ==
  /\ pc = "reset"
  /\ \E ok \in GitOutcomes(D) :
       /\ SetDisk(IF ok
                  THEN [D EXCEPT !.workFile = HeadFile(D), !.lockDirty = FALSE,
                                 !.staged = FALSE, !.index = {}]
                  ELSE D)
       /\ Logged("git reset", ok)
       /\ Continue(AfterReset(ok))
  /\ UNCHANGED << editVars, toolVars, batchVars, cur, originalDir, idx, updateSuccess, updatedPackages,
                  updatedVersions, diffOutput, finalPr >>

AfterCheckout(ok) == IF ok THEN "pull" ELSE "fail"

\* git checkout main
CheckoutMain ==
  /\ pc = "checkoutMain"
  /\ \E ok \in GitOutcomes(D) :
       /\ SetDisk(IF ok
                  THEN [D EXCEPT !.branch = "main", !.workFile = D.mainFile]
                  ELSE D)
       /\ Logged("git checkout main", ok)
       /\ Gate(AfterCheckout(ok), "Could not switch to main branch")
  /\ UNCHANGED << editVars, toolVars, batchVars, cur, originalDir, idx, updateSuccess, updatedPackages,
                  updatedVersions, diffOutput, finalPr >>

\* the pull gate without its early return
AfterPullUnchecked(ok) == "branch"

AfterPull(ok) == IF ok THEN "branch" ELSE "fail"

\* git pull origin main (the remote trunk is taken not to move during a batch)
Pull ==
  /\ pc = "pull"
  /\ \E ok \in GitOutcomes(D) :
       /\ Logged("git pull", ok)
       /\ Gate(AfterPull(ok), "Could not pull latest changes")
  /\ UNCHANGED << editVars, toolVars, batchVars, disk, cur, originalDir, idx, updateSuccess,
                  updatedPackages, updatedVersions, diffOutput, finalPr >>

\* the branch gate without its early return
AfterBranchUnchecked(ok) == "analyze"

AfterBranch(ok) == IF ok THEN "analyze" ELSE "fail"

\* git checkout -b <branchName>: fails when the branch already exists
Branch ==
  /\ pc = "branch"
  /\ \E ok \in (IF D.featureExists THEN {FALSE} ELSE GitOutcomes(D)) :
       /\ SetDisk(IF ok
                  THEN [D EXCEPT !.branch = "feature", !.featureExists = TRUE,
                                 !.featFile = D.mainFile, !.commits = << >>,
                                 !.pushed = FALSE]
                  ELSE D)
       /\ Logged("git checkout -b", ok)
       /\ Gate(AfterBranch(ok), "Could not create new branch")
  /\ UNCHANGED << editVars, toolVars, batchVars, cur, originalDir, idx, updateSuccess, updatedPackages,
                  updatedVersions, diffOutput, finalPr >>

\* ------------------------------------------------------------------------
\* updateRepo: Analyze & Update
\* ------------------------------------------------------------------------
\* what the loop body does with packages[i]: the three skips of the code,
\* the exception semver raises on an unparsable version, or the edit
Resolution(file, pkg, ver) ==
  IF ~ packageExists(file, pkg) THEN "NotFound"
  ELSE LET info == getCurrentVersion(file, pkg)
       IN  IF ~ info.found THEN "Undetermined"
           ELSE LET c == versionIsHigherOrEqual(info.version, ver)
                IN  IF c.threw THEN "Throw"
                    ELSE IF c.value THEN "AlreadyCurrent" ELSE "Update"

\* an install verification that runs whether or not anything was updated
AfterAnalyzeAlwaysInstall(us) == "rmA"

\* if (updateSuccess) { install verification } then change detection
AfterAnalyze(us) == IF us THEN "rmA" ELSE "diff"

\* let updateSuccess = false; ...; if (fs.existsSync('package.json')) copy
AnalyzeBegin ==
  /\ pc = "analyze"
  /\ IF D.workFile.kind # "missing"
     THEN /\ SetDisk([D EXCEPT !.bak = TRUE, !.bakFile = D.workFile])
          /\ Logged("cp package.json.bak", TRUE)
          /\ Continue("analyzePkg")
     ELSE /\ UNCHANGED << disk, log >>
          /\ Continue(AfterAnalyze(updateSuccess))
  /\ idx' = 1
  /\ UNCHANGED << editVars, toolVars, batchVars, cur, originalDir, updateSuccess, updatedPackages,
                  updatedVersions, diffOutput, finalPr >>

\* a loop that takes the first target for every package
VersionAtFirst(i) == versions[1]

\* const ver = versions[i]
VersionAt(i) == versions[i]

\* one iteration of for (let i = 0; i < packages.length; i++)
AnalyzePkg ==
  /\ pc = "analyzePkg"
  /\ idx <= Len(packages)
  /\ LET pkg == packages[idx]
         ver == VersionAt(idx)
         res == Resolution(D.workFile, pkg, ver)
         info == getCurrentVersion(D.workFile, pkg)
     IN  CASE res = "Throw" ->
                /\ Return("false")
                /\ diag' = "Error processing repository"
                /\ UNCHANGED << disk, log, idx, updateSuccess, updatedPackages,
                                updatedVersions >>
           [] res = "Update" ->
                \E ioOk \in BOOLEAN :
                  LET r == updatePackageJson(D.workFile, pkg, info.section, ver, ioOk)
                  IN  /\ updatedPackages' = Append(updatedPackages, pkg)
                      /\ updatedVersions' = Append(updatedVersions, ver)
                      /\ SetDisk([D EXCEPT !.workFile = r.file])
                      /\ log' = Append(log, EvArg("write package.json", r.ok, pkg))
                      /\ updateSuccess' = (updateSuccess \/ r.ok)
                      /\ idx' = idx + 1
                      /\ Continue("analyzePkg")
           [] OTHER ->
                /\ idx' = idx + 1
                /\ Continue("analyzePkg")
                /\ UNCHANGED << disk, log, updateSuccess, updatedPackages,
                                updatedVersions >>
  /\ UNCHANGED << editVars, toolVars, batchVars, cur, originalDir, diffOutput, finalPr >>

\* after the loop: restore the backup if nothing was updated, remove it
AnalyzeEnd ==
  /\ pc = "analyzePkg"
  /\ idx > Len(packages)
  /\ SetDisk([D EXCEPT !.workFile = IF updateSuccess THEN D.workFile ELSE D.bakFile,
                       !.bak = FALSE, !.bakFile = MissingFile])
  /\ log' = log \o (IF updateSuccess THEN << >> ELSE << Ev("restore package.json", TRUE) >>)
                 \o << Ev("rm package.json.bak", TRUE) >>
  /\ Continue(AfterAnalyze(updateSuccess))
  /\ UNCHANGED << editVars, toolVars, batchVars, cur, originalDir, idx, updateSuccess, updatedPackages,
                  updatedVersions, diffOutput, finalPr >>

\* ------------------------------------------------------------------------
\* updateRepo: Install Verification
\* ------------------------------------------------------------------------
\* try { if (existsSync('node_modules')) rmSync(...) } catch { log }: next is
\* the step that follows; a failed removal leaves the directory
RemoveNodeModules(at, next) ==
  /\ pc = at
  /\ \E ok \in BOOLEAN :
       /\ SetDisk([D EXCEPT !.nodeModules = IF ok THEN FALSE ELSE D.nodeModules])
       /\ Logged("rm node_modules", ok)
  /\ Continue(next)
  /\ UNCHANGED << editVars, toolVars, batchVars, cur, originalDir, idx, updateSuccess, updatedPackages,
                  updatedVersions, diffOutput, finalPr >>

RemoveBeforeForce == RemoveNodeModules("rmA", "force")

RemoveBeforeRegular == RemoveNodeModules("rmB", "regular")

\* the forced-install gate without its early return
AfterForceUnchecked(ok) == "rmB"

\* a forced-install gate that cleans the branch up before it gives up
AfterForceCleansUp(ok) == IF ok THEN "rmB" ELSE "cleanCheckout"

AfterForce(ok) == IF ok THEN "rmB" ELSE "fail"

\* npm install --force: on success node_modules and the lockfile exist; the
\* lockfile may or may not differ from the committed one
ForceInstall ==
  /\ pc = "force"
  /\ \E ok \in BOOLEAN :
       /\ \E ld \in (IF D.lockExists THEN BOOLEAN ELSE {TRUE}) :
            SetDisk(IF ok
                    THEN [D EXCEPT !.nodeModules = TRUE, !.lockExists = TRUE,
                                   !.lockDirty = ld]
                    ELSE D)
       /\ Logged("npm install --force", ok)
       /\ Gate(AfterForce(ok), "Force installation failed")
  /\ UNCHANGED << editVars, toolVars, batchVars, cur, originalDir, idx, updateSuccess, updatedPackages,
                  updatedVersions, diffOutput, finalPr >>

\* the regular-install gate without its early return
AfterRegularUnchecked(ok) == "diff"

AfterRegular(ok) == IF ok THEN "diff" ELSE "fail"

\* npm install
RegularInstall ==
  /\ pc = "regular"
  /\ \E ok \in BOOLEAN :
       /\ SetDisk(IF ok THEN [D EXCEPT !.nodeModules = TRUE] ELSE D)
       /\ Logged("npm install", ok)
       /\ Gate(AfterRegular(ok), "Regular installation failed after forced install")
  /\ UNCHANGED << editVars, toolVars, batchVars, cur, originalDir, idx, updateSuccess, updatedPackages,
                  updatedVersions, diffOutput, finalPr >>

\* ------------------------------------------------------------------------
\* updateRepo: Change Detection, Commit & Publish, cleanup
\* ------------------------------------------------------------------------
\* package.json or package-lock.json differs from the last commit
FilesDiffer(d) == d.workFile # HeadFile(d) \/ d.lockDirty

\* a path named on the git command line is absent from the working tree
PathMissing(d) == d.workFile.kind = "missing" \/ ~ d.lockExists

\* exit code of 'git diff --quiet package.json package-lock.json': 0 no
\* difference, 1 difference, 128 fatal (path not in the working tree)
DiffExitCode(d) ==
  IF ~ d.git \/ PathMissing(d) THEN 128 ELSE IF FilesDiffer(d) THEN 1 ELSE 0

\* stderr of git followed by what '|| echo "changes"' prints
DiffText(code) ==
  (IF code = 128 THEN << "fatal: ambiguous argument" >> ELSE << >>)
    \o (IF code # 0 THEN << "changes" >> ELSE << >>)

\* diffResult.output.includes('changes')
IncludesChanges(out) == \E k \in 1..Len(out) : out[k] = "changes"

\* finalPrTitle / finalPrBody: the updated list when it is non-empty, else
\* the title and body of the whole request
FinalPr(ups, uvs, title, body) ==
  IF Len(ups) > 0
  THEN [title |-> PairList(ups, uvs), body |-> PairList(ups, uvs)]
  ELSE [title |-> title, body |-> body]

\* the else branch without the checkout of main before the branch deletion
AfterDiffNoCheckout(changes) == IF changes THEN "add" ELSE "cleanDelete"

\* if (diffResult.output.includes('changes')) { publish } else { cleanup }
AfterDiff(changes) == IF changes THEN "add" ELSE "cleanCheckout"

Diff ==
  /\ pc = "diff"
  /\ LET out == DiffText(DiffExitCode(D))
     IN  /\ diffOutput' = out
         /\ Logged("git diff", TRUE)
         /\ finalPr' = IF IncludesChanges(out)
                        THEN FinalPr(updatedPackages, updatedVersions, prTitle, prBody)
                        ELSE finalPr
         /\ Continue(AfterDiff(IncludesChanges(out)))
  /\ UNCHANGED << editVars, toolVars, batchVars, disk, cur, originalDir, idx, updateSuccess,
                  updatedPackages, updatedVersions >>

\* files a developer keeps in the working tree without tracking them
LocalArtifacts == {"notes.txt"}

\* the paths of the working tree that git status reports: modified tracked
\* files and untracked files
WorkTreeChanges(d) ==
  (IF d.workFile # HeadFile(d) THEN {"package.json"} ELSE {})
    \cup (IF d.lockDirty THEN {"package-lock.json"} ELSE {})
    \cup (IF d.bak THEN {"package.json.bak"} ELSE {})
    \cup LocalArtifacts

\* what git add <pathspec> puts into the index
StagedBy(spec, d) ==
  IF "." \in spec THEN WorkTreeChanges(d) ELSE WorkTreeChanges(d) \cap spec

\* a pathspec that takes the whole working tree
PathspecAll == {"."}

\* the arguments of git add
Pathspec == {"package.json", "package-lock.json"}

\* git add package.json package-lock.json: fatal (nothing staged) when a
\* path is missing; the result is not inspected
Add ==
  /\ pc = "add"
  /\ LET ok == D.git /\ ~ PathMissing(D)
     IN  /\ SetDisk([D EXCEPT !.staged = ok /\ FilesDiffer(D),
                              !.index = IF ok THEN StagedBy(Pathspec, D) ELSE D.index,
                              !.pathspec = Pathspec])
         /\ Logged("git add", ok)
  /\ Continue("commit")
  /\ UNCHANGED << editVars, toolVars, batchVars, cur, originalDir, idx, updateSuccess, updatedPackages,
                  updatedVersions, diffOutput, finalPr >>

\* git commit -m "<finalPrTitle>": fails when nothing is staged; the result
\* is not inspected
Commit ==
  /\ pc = "commit"
  /\ LET ok == D.git /\ D.staged
     IN  /\ SetDisk(IF ok
                    THEN [D EXCEPT !.commits = Append(D.commits, finalPr.title),
                                   !.featFile = D.workFile, !.lockDirty = FALSE,
                                   !.staged = FALSE, !.index = {}]
                    ELSE D)
         /\ Logged("git commit", ok)
  /\ Continue("push")
  /\ UNCHANGED << editVars, toolVars, batchVars, cur, originalDir, idx, updateSuccess, updatedPackages,
                  updatedVersions, diffOutput, finalPr >>

\* the push gate without its early return
AfterPushUnchecked(ok) == "pr"

AfterPush(ok) == IF ok THEN "pr" ELSE "fail"

\* git push --set-upstream origin "<branchName>"
Push ==
  /\ pc = "push"
  /\ \E ok \in GitOutcomes(D) :
       /\ SetDisk(IF ok THEN [D EXCEPT !.pushed = TRUE] ELSE D)
       /\ Logged("git push", ok)
       /\ Gate(AfterPush(ok), "Could not push changes")
  /\ UNCHANGED << editVars, toolVars, batchVars, cur, originalDir, idx, updateSuccess, updatedPackages,
                  updatedVersions, diffOutput, finalPr >>

\* a PR gate that cleans the branch up when the PR creation fails
AfterPrCleansUp(ok) == IF ok THEN "finish" ELSE "cleanCheckout"

AfterPr(ok) == IF ok THEN "finish" ELSE "fail"

\* gh pr create --title ... --body ... --base main: refused when the branch
\* has no commit ahead of main
CreatePr ==
  /\ pc = "pr"
  /\ \E ok \in (IF Len(D.commits) > 0 THEN BOOLEAN ELSE {FALSE}) :
       /\ SetDisk(IF ok THEN [D EXCEPT !.prs = Append(D.prs, finalPr)] ELSE D)
       /\ Logged("gh pr create", ok)
       /\ Gate(AfterPr(ok), "Could not create PR")
  /\ UNCHANGED << editVars, toolVars, batchVars, cur, originalDir, idx, updateSuccess, updatedPackages,
                  updatedVersions, diffOutput, finalPr >>

\* else branch: git checkout main, result not inspected. main was checked
\* out earlier in this run and git diff has just found the tracked manifest
\* files unmodified, so git has nothing to refuse
CleanupCheckout ==
  /\ pc = "cleanCheckout"
  /\ LET ok == D.git
     IN  /\ SetDisk(IF ok
                    THEN [D EXCEPT !.branch = "main", !.workFile = D.mainFile]
                    ELSE D)
         /\ Logged("git checkout main", ok)
  /\ Continue("cleanDelete")
  /\ UNCHANGED << editVars, toolVars, batchVars, cur, originalDir, idx, updateSuccess, updatedPackages,
                  updatedVersions, diffOutput, finalPr >>

\* git branch -D <branchName>: refused for the checked-out branch; result
\* not inspected
CleanupDelete ==
  /\ pc = "cleanDelete"
  /\ LET ok == D.git /\ D.featureExists /\ D.branch # "feature"
     IN  /\ SetDisk(IF ok THEN [D EXCEPT !.featureExists = FALSE] ELSE D)
         /\ Logged("git branch -D", ok)
  /\ Continue("finish")
  /\ UNCHANGED << editVars, toolVars, batchVars, cur, originalDir, idx, updateSuccess, updatedPackages,
                  updatedVersions, diffOutput, finalPr >>

\* process.chdir(originalDir); return true
Finish ==
  /\ pc = "finish"
  /\ Return("true")
  /\ diag' = diag
  /\ UNCHANGED << editVars, toolVars, batchVars, disk, cur, originalDir, idx, updateSuccess,
                  updatedPackages, updatedVersions, diffOutput, finalPr, log >>

UpdateRepoStep ==
  \/ Enter \/ Reset \/ CheckoutMain \/ Pull \/ Branch
  \/ AnalyzeBegin \/ AnalyzePkg \/ AnalyzeEnd
  \/ RemoveBeforeForce \/ ForceInstall \/ RemoveBeforeRegular \/ RegularInstall
  \/ Diff \/ Add \/ Commit \/ Push \/ CreatePr
  \/ CleanupCheckout \/ CleanupDelete \/ Finish

Next ==
  \/ CheckPreconditions \/ CallUpdateRepo \/ RecordResult \/ PrintSummary
  \/ UpdateRepoStep

Spec == Init /\ [][Next]_vars

\* ------------------------------------------------------------------------
\* The manifest editor called directly (as the unit tests do)
\* ------------------------------------------------------------------------
SectionChoices ==
  {NoSection, Section([q \in Pkgs |-> NoEntry]), Section(One("a", V_c100)),
   Section(One("a", << >>)), Section(One("b", V_c200))}

EditManifests ==
  {Json(d, v, p) : d \in SectionChoices, v \in SectionChoices, p \in SectionChoices}
    \cup {MissingFile, GarbageFile, ManifestMulti}

\* package names of the calls: c is in no manifest
EditPkgs == Pkgs \cup {"c"}

InitEdit ==
  /\ mfile \in EditManifests
  /\ mcall = NoCall /\ vcall = NoCompare /\ proc = NoProc
  /\ ToolInit
  /\ packages = << >> /\ versions = << >> /\ repos = << >> /\ ghLoggedIn = FALSE
  /\ disk = FirstRepoHolds(InitialDisk(TRUE, TRUE, MissingFile, FALSE))
  /\ PipeInit

CallUpdatePackageJson ==
  /\ \E pkg \in EditPkgs, section \in SectionNames, version \in {V_c200, V_c12},
        ioOk \in BOOLEAN :
       LET r == updatePackageJson(mfile, pkg, section, version, ioOk)
       IN  /\ mfile' = r.file
           /\ mcall' = [op |-> "updatePackageJson", pkg |-> pkg, section |-> section,
                        version |-> version, before |-> mfile, ioOk |-> ioOk,
                        ok |-> r.ok, info |-> NullInfo]
  /\ UNCHANGED << toolVars, pipeVars, vcall, proc >>

CallGetCurrentVersion ==
  /\ \E pkg \in EditPkgs :
       mcall' = [op |-> "getCurrentVersion", pkg |-> pkg, section |-> "",
                 version |-> << >>, before |-> mfile, ioOk |-> TRUE, ok |-> FALSE,
                 info |-> getCurrentVersion(mfile, pkg)]
  /\ UNCHANGED << toolVars, mfile, pipeVars, vcall, proc >>

CallPackageExists ==
  /\ \E pkg \in EditPkgs :
       mcall' = [op |-> "packageExists", pkg |-> pkg, section |-> "",
                 version |-> << >>, before |-> mfile, ioOk |-> TRUE,
                 ok |-> packageExists(mfile, pkg), info |-> NullInfo]
  /\ UNCHANGED << toolVars, mfile, pipeVars, vcall, proc >>

NextEdit == CallUpdatePackageJson \/ CallGetCurrentVersion \/ CallPackageExists

SpecEdit == InitEdit /\ [][NextEdit]_vars

\* ------------------------------------------------------------------------
\* The version comparator called directly
\* ------------------------------------------------------------------------
\* the leading range characters the comparator removes, and none
Prefixes == {<< >>, << "^" >>, << "~" >>, << "=" >>}

\* version strings without a prefix: full triples, one of them with a
\* two-digit component, a version with a missing component, and a tag
Bodies ==
  {<< "1", ".", "0", ".", "0" >>, << "2", ".", "0", ".", "0" >>,
   << "1", ".", "9", ".", "0" >>, << "1", ".", "1", "0", ".", "0" >>,
   << "1", ".", "2" >>, V_latest}

InitCmp ==
  /\ vcall = NoCompare
  /\ mfile = MissingFile /\ mcall = NoCall /\ proc = NoProc
  /\ ToolInit
  /\ packages = << >> /\ versions = << >> /\ repos = << >> /\ ghLoggedIn = FALSE
  /\ disk = FirstRepoHolds(InitialDisk(TRUE, TRUE, MissingFile, FALSE))
  /\ PipeInit

\* versionIsHigherOrEqual(cp + cb, tp + tb), and the same call on the two
\* strings without their prefixes
CallVersionIsHigherOrEqual ==
  /\ \E cp \in Prefixes, tp \in Prefixes, cb \in Bodies, tb \in Bodies :
       vcall' = [op |-> "versionIsHigherOrEqual", cp |-> cp, cb |-> cb, tp |-> tp,
                 tb |-> tb,
                 res |-> versionIsHigherOrEqual(cp \o cb, tp \o tb),
                 bare |-> versionIsHigherOrEqual(cb, tb)]
  /\ UNCHANGED << toolVars, pipeVars, mfile, mcall, proc >>

NextCmp == CallVersionIsHigherOrEqual

SpecCmp == InitCmp /\ [][NextCmp]_vars

\* ------------------------------------------------------------------------
\* executeCommand: one child process and the promise it settles
\* ------------------------------------------------------------------------
\* most chunks a child writes in the model
MaxChunks == 3

Streams == {"stdout", "stderr"}

Chunks == {"x", "y"}

ExitCodes == {0, 1, 128}

\* ------------------------------------------------------------------------
\* batch-upgrade-npm-pkgs.sh: version_is_higher_or_equal without semver
\* ------------------------------------------------------------------------
\* ${v#c}: the shortest match of c removed from the front
DropLeading(s, c) == IF Len(s) > 0 /\ s[1] = c THEN Tail(s) ELSE s

\* current=${current#^}; current=${current#~}; current=${current#=}
ShStrip(s) == DropLeading(DropLeading(DropLeading(s, "^"), "~"), "=")

\* an operand the test builtin accepts as an integer
ShIsInt(c) == Len(c) > 0 /\ \A k \in 1..Len(c) : c[k] \in Digits

\* [ "$a" -gt "$b" ]: status 0 when both are integers and a > b, else not 0
ShGt(a, b) == ShIsInt(a) /\ ShIsInt(b) /\ NumVal(a) > NumVal(b)

\* [ "$a" -lt "$b" ]
ShLt(a, b) == ShIsInt(a) /\ ShIsInt(b) /\ NumVal(a) < NumVal(b)

\* the else branch of version_is_higher_or_equal: TRUE for return 0
ShFallbackGte(current, target) ==
  LET c == SplitDots(ShStrip(current))
      t == SplitDots(ShStrip(target))
  IN  IF ShGt(c[1], t[1]) THEN TRUE
      ELSE IF ShLt(c[1], t[1]) THEN FALSE
      ELSE IF Len(c) > 1 /\ Len(t) > 1 /\ ShGt(c[2], t[2]) THEN TRUE
      ELSE IF Len(c) > 1 /\ Len(t) > 1 /\ ShLt(c[2], t[2]) THEN FALSE
      ELSE IF Len(c) > 2 /\ Len(t) > 2 /\ ShGt(c[3], t[3]) THEN TRUE
      ELSE IF Len(c) > 2 /\ Len(t) > 2 /\ ShLt(c[3], t[3]) THEN FALSE
      ELSE TRUE

\* version strings given to the script: triples, one of them with a
\* two-digit component, versions with missing components, and a tag
ShBodies ==
  {<< "1", ".", "9", ".", "0" >>, << "1", ".", "1", "0", ".", "0" >>,
   << "1", ".", "2", ".", "5" >>, << "1", ".", "2" >>, << "2" >>, V_latest}

\* version_is_higher_or_equal "$current_version" "$ver" on a machine
\* without semver
CallShVersionIsHigherOrEqual ==
  /\ \E cp \in Prefixes, tp \in Prefixes, cb \in ShBodies, tb \in ShBodies :
       vcall' = [op |-> "version_is_higher_or_equal", cp |-> cp, cb |-> cb,
                 tp |-> tp, tb |-> tb,
                 res |-> [threw |-> FALSE, value |-> ShFallbackGte(cp \o cb, tp \o tb)],
                 bare |-> [threw |-> FALSE, value |-> ShFallbackGte(cb, tb)]]
  /\ UNCHANGED << toolVars, pipeVars, mfile, mcall, proc >>

NextShCmp == CallShVersionIsHigherOrEqual

SpecShCmp == InitCmp /\ [][NextShCmp]_vars

\* ------------------------------------------------------------------------
\* The MCP tool upgrade-npm-packages and batch-upgrade-npm-pkgs.sh
\* ------------------------------------------------------------------------
\* one word of a line of the script's output
Word(kind, v) == [kind |-> kind, v |-> v]

\* echo "Processing repository: $repo_path"
ProcessingLine(r) == << Word("text", "Processing repository:"), Word("path", r) >>

\* what gh pr create prints on its standard output: the URL of the new pull
\* request, on a line of its own
UrlLine(r) == << Word("url", r) >>

\* echo "Pull request created successfully for $repo_path"
CreatedLine(r) ==
  << Word("marker", "Pull request created"), Word("text", "successfully for"),
     Word("path", r) >>

\* echo "Error: Could not ... $repo_path"
ErrorLine(stage, r) == << Word("text", stage), Word("path", r) >>

\* echo "Package update process completed."
CompletedLine == << Word("text", "Package update process completed.") >>

\* the commands of update_repo followed by || { echo ...; return 1; } or
\* tested with if !
ReturnStages ==
  {"cd", "git checkout main", "git pull", "git checkout -b", "npm install --force",
   "npm install", "git push", "gh pr create"}

\* the commands of update_repo whose exit status nothing tests
PlainStages == {"git reset", "git add", "git commit", "git branch -D"}

\* ways one call of update_repo can end
RepoEndings == ReturnStages \cup PlainStages \cup {"created", "nochanges"}

\* exit status of the script when a command of update_repo fails: set -e
\* ends the shell at an untested failing command, and at the failing call
\* of update_repo in main
FailureStatus(stage) == IF stage \in ReturnStages THEN {1} ELSE {1, 128}

\* what update_repo writes for one repository
RepoOutput(r, ending) ==
  << ProcessingLine(r) >>
    \o (IF ending = "created" THEN << UrlLine(r), CreatedLine(r) >>
        ELSE IF ending \in ReturnStages THEN << ErrorLine(ending, r) >>
        ELSE << >>)

\* result.match(/Pull request created.*?(https:\/\/github\.com\/[^\s]+)/g):
\* the dot does not match a line break, so a match lies within one line,
\* the marker before the URL
MatchesPr(line) ==
  \E i \in 1..Len(line) : \E j \in (i + 1)..Len(line) :
    line[i].kind = "marker" /\ line[j].kind = "url"

\* match.match(/https:\/\/github\.com\/[^\s]+/)?.[0]
FirstUrl(line) ==
  line[CHOOSE j \in 1..Len(line) :
         line[j].kind = "url" /\ \A m \in 1..(j - 1) : line[m].kind # "url"].v

RECURSIVE ExtractUrls(_)
\* prUrls.map(...).filter(Boolean)
ExtractUrls(out) ==
  IF Len(out) = 0 THEN << >>
  ELSE (IF MatchesPr(out[1]) THEN << FirstUrl(out[1]) >> ELSE << >>)
         \o ExtractUrls(Tail(out))

\* UpgradePackagesSchema.parse and the length check of the handler
ToolInputValid ==
  /\ Len(packages) >= 1 /\ Len(versions) >= 1 /\ Len(repos) >= 1
  /\ Len(packages) = Len(versions)

\* the catch block of the handler
ErrorResponse == [NoResponse EXCEPT !.isError = TRUE]

\* the tool is called: invalid input is answered at once, else the script
\* is spawned and runs check_gh_login
CallTool ==
  /\ sh.pc = "none"
  /\ sh' = IF ~ ToolInputValid
           THEN [sh EXCEPT !.pc = "responded", !.resp = ErrorResponse]
           ELSE IF ~ ghLoggedIn
           THEN [sh EXCEPT !.pc = "exited", !.code = 1]
           ELSE [sh EXCEPT !.pc = "loop"]
  /\ UNCHANGED << pipeVars, editVars, now, cli >>

\* for repo in "${input_repos[@]}": update_repo "$repo" ...
update_repo ==
  /\ sh.pc = "loop"
  /\ sh.ri <= Len(repos)
  /\ \E ending \in RepoEndings :
       LET r == repos[sh.ri]
           out == sh.stdout \o RepoOutput(r, ending)
       IN  IF ending \in {"created", "nochanges"}
           THEN sh' = [sh EXCEPT !.ri = @ + 1,
                                 !.processed = Append(@, r),
                                 !.created = IF ending = "created" THEN Append(@, r) ELSE @,
                                 !.stdout = out]
           ELSE \E status \in FailureStatus(ending) :
                  sh' = [sh EXCEPT !.pc = "exited", !.code = status,
                                   !.processed = Append(@, r),
                                   !.stdout = out]
  /\ UNCHANGED << pipeVars, editVars, now, cli >>

\* echo "Package update process completed." and the end of main
ScriptEnds ==
  /\ sh.pc = "loop"
  /\ sh.ri > Len(repos)
  /\ sh' = [sh EXCEPT !.pc = "exited", !.code = 0,
                      !.stdout = Append(@, CompletedLine)]
  /\ UNCHANGED << pipeVars, editVars, now, cli >>

\* process.on('close'): resolve(output) for code 0, else reject; then the
\* response is built from the output, or by the catch block
ToolResponds ==
  /\ sh.pc = "exited"
  /\ sh' = [sh EXCEPT
              !.pc = "responded",
              !.resp = IF sh.code = 0
                       THEN [isError |-> FALSE,
                             totalRepositories |-> Len(repos),
                             successfulPRs |-> Len(ExtractUrls(sh.stdout)),
                             prUrls |-> ExtractUrls(sh.stdout),
                             fullOutput |-> sh.stdout]
                       ELSE ErrorResponse]
  /\ UNCHANGED << pipeVars, editVars, now, cli >>

NextTool == CallTool \/ update_repo \/ ScriptEnds \/ ToolResponds

\* arguments of a tool call: a request, a repository list, gh logged in or not
InitTool ==
  /\ \E r \in Requests : packages = r.packages /\ versions = r.versions
  /\ repos \in RepoLists
  /\ ghLoggedIn \in BOOLEAN
  /\ disk = FirstRepoHolds(InitialDisk(TRUE, TRUE, ManifestA1, TRUE))
  /\ PipeInit
  /\ mfile = MissingFile /\ mcall = NoCall /\ vcall = NoCompare /\ proc = NoProc
  /\ ToolInit

SpecTool == InitTool /\ [][NextTool]_vars

InitExec ==
  /\ proc = NoProc
  /\ ToolInit
  /\ mfile = MissingFile /\ mcall = NoCall /\ vcall = NoCompare
  /\ packages = << >> /\ versions = << >> /\ repos = << >> /\ ghLoggedIn = FALSE
  /\ disk = FirstRepoHolds(InitialDisk(TRUE, TRUE, MissingFile, FALSE))
  /\ PipeInit

\* let output = ''; const proc = spawn(cmd, args, { cwd, shell: true })
ExecSpawn ==
  /\ proc.state = "none"
  /\ proc' = [proc EXCEPT !.state = "running"]
  /\ UNCHANGED << toolVars, pipeVars, mfile, mcall, vcall >>

\* proc.stdout.on('data') / proc.stderr.on('data'): output += text
ExecData ==
  /\ proc.state = "running"
  /\ Len(proc.written) < MaxChunks
  /\ \E st \in Streams, text \in Chunks :
       proc' = [proc EXCEPT !.written = Append(@, [stream |-> st, text |-> text]),
                            !.output = Append(@, text)]
  /\ UNCHANGED << toolVars, pipeVars, mfile, mcall, vcall >>

\* a success flag that is false only for a fatal exit code
ExitSuccessUnlessFatal(code) == code # 128

\* success: code === 0
ExitSuccess(code) == code = 0

\* proc.on('close', (code) => resolve({ success: code === 0, output }))
ExecClose ==
  /\ proc.state = "running"
  /\ \E code \in ExitCodes :
       proc' = [proc EXCEPT !.state = "closed", !.code = code,
                            !.resolved = @ + 1,
                            !.result = [success |-> ExitSuccess(code),
                                        output |-> proc.output]]
  /\ UNCHANGED << toolVars, pipeVars, mfile, mcall, vcall >>

NextExec == ExecSpawn \/ ExecData \/ ExecClose

SpecExec == InitExec /\ [][NextExec]_vars

\* ------------------------------------------------------------------------
\* Properties
\* ------------------------------------------------------------------------
Issued(op) == \E k \in 1..Len(log) : log[k].op = op

Done(op, ok) == \E k \in 1..Len(log) : log[k].op = op /\ log[k].ok = ok

LastEv == log[Len(log)]

\* the batches of the termination check: one request, every repository
\* list, the first repository updatable or absent from the disk
LiveInit ==
  /\ packages = << "a" >> /\ versions = << V_c200 >>
  /\ repos \in RepoLists
  /\ ghLoggedIn \in BOOLEAN
  /\ \E d \in {InitialDisk(TRUE, TRUE, ManifestA1, TRUE),
                InitialDisk(FALSE, FALSE, MissingFile, FALSE)} :
       disk = FirstRepoHolds(d)
  /\ PipeInit
  /\ mfile = MissingFile /\ mcall = NoCall /\ vcall = NoCompare /\ proc = NoProc
  /\ ToolInit

\* the body of for (let i = 0; i < packages.length; i++) at packages[idx]:
\* it is synchronous, so it ends either in the next iteration or in the
\* catch block (this is AnalyzePkg seen through pc and idx only)
LoopBodyRuns ==
  /\ pc = "analyzePkg"
  /\ idx <= Len(packages)
  /\ pc' \in {"analyzePkg", "returned"}
  /\ idx' \in {idx, idx + 1}

\* every step of the program but the loop body
AwaitedSteps ==
  \/ CheckPreconditions \/ CallUpdateRepo \/ RecordResult \/ PrintSummary
  \/ Enter \/ Reset \/ CheckoutMain \/ Pull \/ Branch
  \/ AnalyzeBegin \/ AnalyzeEnd
  \/ RemoveBeforeForce \/ ForceInstall \/ RemoveBeforeRegular \/ RegularInstall
  \/ Diff \/ Add \/ Commit \/ Push \/ CreatePr
  \/ CleanupCheckout \/ CleanupDelete \/ Finish

\* the pipeline when every external command exits and every continuation
\* runs: no step that can be taken is postponed for ever
FairSpec ==
  LiveInit /\ [][Next]_vars /\ WF_vars(AwaitedSteps) /\ WF_<<pc, idx>>(LoopBodyRuns)

\* time passes while the batch runs
Tick ==
  /\ now < MaxNow
  /\ now' = now + 1
  /\ UNCHANGED << pipeVars, editVars, sh, cli >>

NextClock == Tick \/ Next

\* the batches of the termination check, run against a clock that advances
SpecClock == LiveInit /\ [][NextClock]_vars

\* ------------------------------------------------------------------------
\* bin/cli.js
\* ------------------------------------------------------------------------
\* process.exit(code) after printing message
CliExit(code, message) ==
  [cli EXCEPT !.pc = "exited", !.code = code, !.message = message]

\* run(): the three checks on the options (after the prompts filled them in)
CliValidate ==
  /\ cli.pc = "none"
  /\ cli' = IF Len(packages) # Len(versions)
            THEN CliExit(1, "Error: Number of packages and versions must match.")
            ELSE IF Len(packages) = 0 THEN CliExit(1, "Error: No packages specified.")
            ELSE IF Len(repos) = 0 THEN CliExit(1, "Error: No repositories specified.")
            ELSE [cli EXCEPT !.pc = "confirm"]
  /\ UNCHANGED << pipeVars, editVars, now, sh >>

\* the confirm prompt: a declined confirmation prints 'Operation cancelled.'
\* and exits with code 0, an accepted one goes on to updatePackages
CliConfirm ==
  /\ cli.pc = "confirm"
  /\ \E confirm \in BOOLEAN :
       cli' = IF ~ confirm
              THEN CliExit(0, "Operation cancelled.")
              ELSE [cli EXCEPT !.pc = "running", !.confirmed = TRUE]
  /\ UNCHANGED << pipeVars, editVars, now, sh >>

\* await updatePackages({ packages, versions, repos }) of the try block
CliUpdatePackages == cli.pc = "running" /\ Next

\* spinner.succeed(...) after the await: the value updatePackages returned
\* is not used
CliReport(result) == "Package update process completed successfully."

\* the statement after the await, and the end of run()
CliFinish ==
  /\ cli.pc = "running"
  /\ bpc = "done"
  /\ cli' = CliExit(0, CliReport(bret))
  /\ UNCHANGED << pipeVars, editVars, now, sh >>

NextCli == CliValidate \/ CliConfirm \/ CliUpdatePackages \/ CliFinish

\* command lines of the program: a request, a repository list, gh logged
\* in or not, the first repository updatable or absent from the disk
InitCli ==
  /\ \E r \in {[packages |-> << "a" >>, versions |-> << V_c200 >>],
               [packages |-> << "a", "b" >>, versions |-> << V_c200 >>],
               [packages |-> << >>, versions |-> << >>]} :
       packages = r.packages /\ versions = r.versions
  /\ repos \in RepoLists
  /\ ghLoggedIn \in BOOLEAN
  /\ \E d \in {InitialDisk(TRUE, TRUE, ManifestA1, TRUE),
                InitialDisk(FALSE, FALSE, MissingFile, FALSE)} :
       disk = FirstRepoHolds(d)
  /\ PipeInit
  /\ mfile = MissingFile /\ mcall = NoCall /\ vcall = NoCompare /\ proc = NoProc
  /\ ToolInit

SpecCli == InitCli /\ [][NextCli]_vars

\* C1: when updateRepo has returned, on whatever path, the process working
\* directory is the one it was called in; between two repositories and after
\* the batch it is the directory the batch started in.
C1_CwdRestored ==
  /\ (pc = "returned" => cwd = originalDir /\ cwd = StartDir)
  /\ (bpc \in {"loop", "done"} => cwd = StartDir)

\* the run entered the repository and ended through the catch block, the
\* backup file still lying in the working tree
C1_Witness ==
  /\ pc = "returned" /\ ret = "false"
  /\ Done("chdir", TRUE)
  /\ D.bak
  /\ cwd = StartDir

\* C2: every package.json write and every commit of a run happens on the
\* feature branch: after a successful 'git checkout -b' of that run, with no
\* 'git checkout main' issued since, and never while main is checked out.
MutatingOps == {"write package.json", "restore package.json", "git commit"}

C2_TrunkNeverMutated ==
  [][\A k \in (Len(log) + 1)..Len(log') :
       log'[k].op \in MutatingOps =>
         /\ D.branch = "feature"
         /\ disk'[cur].branch = "feature"
         /\ \E j \in 1..(k - 1) :
              /\ log'[j] = Ev("git checkout -b", TRUE)
              /\ \A m \in (j + 1)..k : log'[m].op # "git checkout main"]_vars

\* a run that edited the manifest and committed it
C2_Witness ==
  /\ Done("write package.json", TRUE)
  /\ Done("git commit", TRUE)
  /\ D.branch = "feature"

\* C4: updateRepo is called once per repository of the request, in request
\* order, whatever the earlier outcomes: the calls made so far are a prefix of
\* the request, one per finished or running repository, and a batch that
\* passed its preconditions ends with all of them made.
C4_Isolation ==
  /\ Len(invoked) <= Len(repos)
  /\ invoked = SubSeq(repos, 1, Len(invoked))
  /\ (bpc = "loop" => Len(invoked) = ri - 1 /\ Len(results) = ri - 1)
  /\ (bpc = "await" => Len(invoked) = ri)
  /\ (bpc = "done" /\ bret = "true" => invoked = repos)

\* a finished batch whose first repository failed and whose later ones ran
C4_Witness ==
  /\ bpc = "done" /\ bret = "true"
  /\ Len(results) >= 2
  /\ ~ results[1].success
  /\ invoked = repos

\* C5: when authentication fails, the lists differ in length, or packages or
\* repos is empty, updatePackages returns false and nothing was touched: no
\* updateRepo call, no chdir, no subprocess, every repository as it was.
BadRequest ==
  \/ ~ ghLoggedIn
  \/ Len(packages) # Len(versions)
  \/ Len(packages) = 0
  \/ Len(repos) = 0

C5_PreconditionsAbort ==
  BadRequest =>
    /\ bpc \in {"start", "done"}
    /\ (bpc = "done" => bret = "false")
    /\ invoked = << >> /\ log = << >> /\ pc = "idle"
    /\ cwd = StartDir
    /\ \E d \in InitialDisks : disk = FirstRepoHolds(d)

\* an authenticated batch rejected for its list lengths
C5_Witness ==
  /\ bpc = "done" /\ bret = "false"
  /\ ghLoggedIn
  /\ Len(packages) # Len(versions)
  /\ Len(repos) > 0

\* C3: commit, push and PR creation are issued only when package.json or
\* package-lock.json really differs from the last commit: when change
\* detection sends the run to 'git add', the files differ.
C3_NoPublishWithoutChanges == pc = "add" => FilesDiffer(D)

PublishOps == {"git add", "git commit", "git push", "gh pr create"}

\* C6: in a run with a successful manifest edit, every git add, commit, push
\* and PR creation comes after a successful 'npm install --force' followed by
\* a successful 'npm install'; a failed install is the last operation of its
\* run, which returns false.
C6_InstallsBeforePublish ==
  /\ \A k \in 1..Len(log) :
       (log[k].op \in PublishOps /\ Done("write package.json", TRUE)) =>
         \E i \in 1..k : \E j \in (i + 1)..k :
           /\ log[i] = Ev("npm install --force", TRUE)
           /\ log[j] = Ev("npm install", TRUE)
  /\ \A k \in 1..Len(log) :
       (log[k].op \in {"npm install --force", "npm install"} /\ ~ log[k].ok) =>
         k = Len(log) /\ pc = "returned" /\ ret = "false"

\* a run that edited the manifest, installed twice and opened its PR
C6_Witness ==
  /\ Done("write package.json", TRUE)
  /\ Done("npm install", TRUE)
  /\ Done("gh pr create", TRUE)

\* the requested (name, version) pairs whose edit succeeded in this run, in
\* request order
Rewritten ==
  SelectSeq(PairList(packages, versions),
            LAMBDA e : \E k \in 1..Len(log) :
                         log[k] = EvArg("write package.json", TRUE, e.name))

\* C7: in a run that commits, the commit message and the PR title and body
\* list exactly the packages whose version was rewritten in that run.
C7_TitleListsRewritten ==
  Done("git commit", TRUE) =>
    /\ finalPr.title = Rewritten
    /\ finalPr.body = Rewritten
    /\ D.commits[Len(D.commits)] = Rewritten

GateOps == {"chdir", "git checkout main", "git pull", "git checkout -b",
            "npm install --force", "npm install", "git push", "gh pr create"}

\* C8: no failed run ends in the Analyze & Update stage: a run that returned
\* false did so at a failed gate (entering, checkout, pull, branch, install,
\* push or PR creation).
C8_AnalyzeNeverAborts ==
  (pc = "returned" /\ ret = "false") =>
    /\ Len(log) > 0
    /\ LastEv.op \in GateOps
    /\ ~ LastEv.ok

Parses(v) == SemverValid(StripPrefix(v))

Tuple(v) == SemverTuple(StripPrefix(v))

DeclaredAt(file, s, p) == file.obj[s].deps[p]

\* C9: an edit of the package loop changes only the requested package, from a
\* version strictly below the target to the target; and whenever a step
\* changes a repository's package.json, each declared version that parses is
\* at or above the one the trunk declares (which a batch does not change).
C9_NoDowngrade ==
  [][\A r \in Repos :
       disk'[r].workFile # disk[r].workFile =>
         /\ \A s \in SectionNames : \A p \in Pkgs :
              LET w == disk'[r].workFile
                  m == disk[r].mainFile
              IN  (/\ w.kind = "json" /\ m.kind = "json"
                   /\ HasKey(w.obj, s, p) /\ HasKey(m.obj, s, p)
                   /\ Parses(DeclaredAt(w, s, p).v) /\ Parses(DeclaredAt(m, s, p).v))
                    => TupleGte(Tuple(DeclaredAt(w, s, p).v), Tuple(DeclaredAt(m, s, p).v))
         /\ pc = "analyzePkg" =>
              \A s \in SectionNames : \A p \in Pkgs :
                DeclaredAt(disk'[r].workFile, s, p) # DeclaredAt(disk[r].workFile, s, p) =>
                  /\ r = cur /\ p = packages[idx]
                  /\ DeclaredAt(disk'[r].workFile, s, p) = Entry(versions[idx])
                  /\ Parses(DeclaredAt(disk[r].workFile, s, p).v) /\ Parses(versions[idx])
                  /\ ~ TupleGte(Tuple(DeclaredAt(disk[r].workFile, s, p).v),
                                Tuple(versions[idx]))
                  /\ TupleGte(Tuple(versions[idx]),
                              Tuple(DeclaredAt(disk[r].workFile, s, p).v))]_vars

\* the first requested package was at or above its target and left alone, the
\* second one was below its target and rewritten
C9_Witness ==
  /\ pc = "analyzePkg" /\ idx > Len(packages) /\ Len(packages) = 2
  /\ updatedPackages = << packages[2] >>
  /\ Done("write package.json", TRUE)
  /\ \E s \in SectionNames :
       /\ HasKey(D.workFile.obj, s, packages[1])
       /\ DeclaredAt(D.workFile, s, packages[1]) = DeclaredAt(D.mainFile, s, packages[1])
       /\ Parses(DeclaredAt(D.workFile, s, packages[1]).v)
       /\ TupleGte(Tuple(DeclaredAt(D.workFile, s, packages[1]).v), Tuple(versions[1]))

\* the sections a manifest has and the package keys each of them holds
KeySet(file) ==
  {<< sec, "" >> : sec \in {x \in SectionNames : file.obj[x].present}}
    \cup {e \in SectionNames \X Pkgs : HasKey(file.obj, e[1], e[2])}

\* C10: updatePackageJson returns true, with the entry rewritten, exactly when
\* the file parses, the given section exists and holds pkg as a key, and the
\* write succeeds; otherwise it returns false and leaves the file as it was.
\* The sections and keys of the manifest are the same after every call.
C10_UpdateOnly ==
  mcall.op = "updatePackageJson" =>
    LET b == mcall.before
        held == /\ b.kind = "json"
                /\ mcall.pkg \in Pkgs
                /\ b.obj[mcall.section].present
                /\ b.obj[mcall.section].deps[mcall.pkg].has
    IN  /\ mcall.ok = (held /\ mcall.ioOk)
        /\ (mcall.ok => mfile.obj[mcall.section].deps[mcall.pkg] = Entry(mcall.version))
        /\ (~ mcall.ok => mfile = b)
        /\ mfile.kind = b.kind
        /\ KeySet(mfile) = KeySet(b)

\* a call naming a section the manifest lacks, for a package that another
\* section holds
C10_Witness ==
  /\ mcall.op = "updatePackageJson"
  /\ ~ mcall.ok
  /\ mcall.before.kind = "json"
  /\ ~ mcall.before.obj[mcall.section].present
  /\ \E s \in SectionNames : HasKey(mcall.before.obj, s, mcall.pkg)
  /\ mfile = mcall.before

\* the run took the else branch of the change detection
RanNoChanges == Issued("git diff") /\ ~ IncludesChanges(diffOutput)

PrepOrder == << "chdir", "git reset", "git checkout main", "git pull", "git checkout -b" >>

\* the console.error line of each preparation gate
PrepDiag ==
  [k \in 3..5 |-> IF k = 3 THEN "Could not switch to main branch"
                  ELSE IF k = 4 THEN "Could not pull latest changes"
                  ELSE "Could not create new branch"]

\* C12: the preparation runs in the order reset, checkout main, pull origin
\* main, checkout -b; when checkout, pull or branch creation exits non-zero
\* that command is the last operation of the run, which returns false with
\* the diagnostic of that stage.
C12_PreparationGates ==
  /\ \A k \in 1..Min(Len(log), Len(PrepOrder)) : log[k].op = PrepOrder[k]
  /\ \A k \in 3..Min(Len(log), Len(PrepOrder)) :
       ~ log[k].ok =>
         /\ Len(log) = k
         /\ pc = "returned"
         /\ ret = "false"
         /\ diag = PrepDiag[k]
         /\ cwd = originalDir

\* the pull failed after the reset and the checkout of main succeeded
C12_Witness ==
  /\ pc = "returned"
  /\ Len(log) = 4
  /\ log[2] = Ev("git reset", TRUE)
  /\ log[3] = Ev("git checkout main", TRUE)
  /\ log[4] = Ev("git pull", FALSE)
  /\ D.workFile = D.mainFile

\* C13: when 'npm install --force' exits non-zero it is the last operation of
\* the run: the regular 'npm install' is not invoked, no git add, commit,
\* push or PR creation is issued, and updateRepo returns false.
C13_ForcedInstallFailure ==
  Done("npm install --force", FALSE) =>
    /\ LastEv = Ev("npm install --force", FALSE)
    /\ ~ Issued("npm install")
    /\ \A op \in PublishOps : ~ Issued(op)
    /\ pc = "returned"
    /\ ret = "false"
    /\ diag = "Force installation failed"
    /\ D.commits = << >> /\ ~ D.pushed /\ D.prs = << >>

\* the forced install failed after a manifest edit
C13_Witness ==
  /\ pc = "returned"
  /\ Done("write package.json", TRUE)
  /\ Done("npm install --force", FALSE)
  /\ D.workFile # D.mainFile

\* the operations of the install verification
InstallOps == {"rm node_modules", "npm install --force", "npm install"}

\* C14: the install verification runs in a run exactly when at least one
\* package's version was rewritten in the manifest during that run: a run
\* that has returned issued the forced install if and only if a manifest
\* edit succeeded, and without a successful edit it issued no removal of
\* node_modules and no npm command.
C14_InstallIffDirty ==
  /\ (\E op \in InstallOps : Issued(op)) => Done("write package.json", TRUE)
  /\ pc = "returned" =>
       (Done("write package.json", TRUE) <=> Issued("npm install --force"))

\* C15: at the moment 'npm install --force' starts and at the moment the
\* regular 'npm install' starts, the repository has no node_modules
\* directory, also when the deletion attempt before it failed.
C15_ColdInstall == pc \in {"force", "regular"} => ~ D.nodeModules

\* C16: the summary of updatePackages has exactly one entry per input
\* repository, in input order, and an entry reads Failed if and only if the
\* updateRepo call for that repository ended on one of its failure paths.
C16_SummaryPerRepo ==
  /\ Len(outcomes) = Len(results)
  /\ Len(results) <= Len(repos)
  /\ \A k \in 1..Len(results) : results[k].repo = repos[k]
  /\ bpc = "done" /\ bret = "true" =>
       /\ Len(summary) = Len(repos)
       /\ \A k \in 1..Len(summary) :
            /\ summary[k].repo = repos[k]
            /\ summary[k].line \in {"Success", "Failed"}
            /\ (summary[k].line = "Failed" <=> outcomes[k] = "Failed")

\* three repositories of which only the second failed, before its feature
\* branch was created
C16_Witness ==
  /\ bpc = "done"
  /\ Len(summary) = 3
  /\ outcomes[1] = "PrCreated" /\ outcomes[2] = "Failed" /\ outcomes[3] = "PrCreated"
  /\ ~ disk[repos[2]].featureExists
  /\ summary[1].line = "Success" /\ summary[2].line = "Failed"
  /\ summary[3].line = "Success"

\* C17 as claimed: a run that ended with its branch cleaned up and no pull
\* request is never reported with the same status as a run that created a
\* pull request.
C17_ThreeStatuses ==
  \A i, j \in 1..Len(results) :
    outcomes[i] = "NoChanges" /\ outcomes[j] = "PrCreated" =>
      /\ results[i].success # results[j].success
      /\ bpc = "done" => summary[i].line # summary[j].line

\* C17: the outcome reported to updatePackages is a boolean and the summary
\* has two statuses: a run is reported as success, and shown as Success,
\* exactly when it did not end on a failure path, so a run that created a
\* pull request and a run that found no changes are reported alike.
C17_TwoStatuses ==
  /\ \A k \in 1..Len(results) : results[k].success = (outcomes[k] # "Failed")
  /\ bpc = "done" =>
       \A k \in 1..Len(summary) :
         summary[k].line = (IF outcomes[k] = "Failed" THEN "Failed" ELSE "Success")

\* a batch in which one repository got a pull request and another was found
\* current: both are shown as Success
C17_Witness ==
  /\ bpc = "done"
  /\ Len(summary) >= 2
  /\ outcomes[1] = "PrCreated" /\ outcomes[2] = "NoChanges"
  /\ summary[1].line = "Success" /\ summary[2].line = "Success"
  /\ Len(disk[repos[1]].prs) = 1 /\ Len(disk[repos[2]].prs) = 0

\* C18: when 'git push' or 'gh pr create' exits non-zero it is the last
\* operation of the run, which returns false with the diagnostic of that
\* stage: no checkout of main, branch deletion or reset follows, and the
\* feature branch with its commits stays checked out as it was.
C18_NoRevertAfterCommit ==
  \A k \in 1..Len(log) :
    log[k].op \in {"git push", "gh pr create"} /\ ~ log[k].ok =>
      /\ k = Len(log)
      /\ pc = "returned"
      /\ ret = "false"
      /\ diag = (IF log[k].op = "git push" THEN "Could not push changes"
                 ELSE "Could not create PR")
      /\ D.branch = "feature"
      /\ D.featureExists
      /\ Done("git commit", TRUE) =>
           /\ Len(D.commits) = 1
           /\ D.featFile = D.workFile
           /\ D.featFile # D.mainFile

\* the PR creation failed after the commit was made and pushed
C18_Witness ==
  /\ pc = "returned"
  /\ Done("git commit", TRUE)
  /\ Done("git push", TRUE)
  /\ LastEv = Ev("gh pr create", FALSE)
  /\ D.pushed
  /\ Len(D.commits) = 1

\* the operations from the install verification to the pull request, in the
\* order of the code
PublishOrder ==
  << "rm node_modules", "npm install --force", "rm node_modules", "npm install",
     "git diff", "git add", "git commit", "git push", "gh pr create" >>

\* position in the log of the first removal of node_modules (0 when there
\* is none)
FirstRemoval ==
  IF Issued("rm node_modules")
  THEN CHOOSE k \in 1..Len(log) :
         /\ log[k].op = "rm node_modules"
         /\ \A j \in 1..(k - 1) : log[j].op # "rm node_modules"
  ELSE 0

\* C19: in a run where a package was updated, both installs succeeded and
\* changes were detected, the operations from the first removal of
\* node_modules on are, in this order, remove node_modules, npm install
\* --force, remove node_modules, npm install, git diff, git add, git commit,
\* git push, gh pr create; the run returns true if and only if the push and
\* the PR creation both exited 0.
C19_SuccessPath ==
  (/\ Done("write package.json", TRUE)
   /\ Done("npm install --force", TRUE)
   /\ Done("npm install", TRUE)
   /\ Issued("git diff")) =>
    /\ IncludesChanges(diffOutput)
    /\ FirstRemoval > 0
    /\ Len(log) - FirstRemoval + 1 <= Len(PublishOrder)
    /\ \A k \in FirstRemoval..Len(log) : log[k].op = PublishOrder[k - FirstRemoval + 1]
    /\ \A k \in 1..(FirstRemoval - 1) : log[k].op \notin PublishOps \cup InstallOps
    /\ pc = "returned" =>
         (ret = "true" <=> Done("git push", TRUE) /\ Done("gh pr create", TRUE))

\* the whole path was walked and the pull request exists
C19_Witness ==
  /\ pc = "returned"
  /\ ret = "true"
  /\ Done("write package.json", TRUE)
  /\ Len(log) - FirstRemoval + 1 = Len(PublishOrder)
  /\ LastEv = Ev("gh pr create", TRUE)
  /\ Len(D.prs) = 1

\* every requested package is declared in the manifest at or above its target
AllCurrent(file) ==
  /\ file.kind = "json"
  /\ Len(packages) = Len(versions)
  /\ \A k \in 1..Len(packages) :
       Resolution(file, packages[k], versions[k]) = "AlreadyCurrent"

\* C20: when updateRepo is run twice in a row on a repository whose trunk
\* manifest declares every requested package at or above its target, each
\* run whose preparation succeeded ends with no changes found and returns
\* true; neither run writes the manifest, commits or creates a PR, and after
\* each run the repository is on main with no feature branch.
C20_Idempotent ==
  repos = << "r1", "r1" >> /\ AllCurrent(disk["r1"].mainFile) =>
    /\ ~ Issued("write package.json")
    /\ ~ Done("git commit", TRUE) /\ ~ Done("gh pr create", TRUE)
    /\ disk["r1"].commits = << >> /\ disk["r1"].prs = << >>
    /\ pc = "returned" =>
         /\ disk["r1"].branch = "main"
         /\ ~ disk["r1"].featureExists
         /\ Done("git checkout -b", TRUE) => Outcome(log) = "NoChanges" /\ ret = "true"
    /\ \A k \in 1..Len(outcomes) : outcomes[k] = "NoChanges" => results[k].success

\* the first section, in the order dependencies, devDependencies,
\* peerDependencies, that holds pkg as a key (0 when none does)
FirstSectionWithKey(file, pkg) ==
  IF file.kind = "json" /\ \E k \in 1..Len(Sections) : HasKey(file.obj, Sections[k], pkg)
  THEN CHOOSE k \in 1..Len(Sections) :
         /\ HasKey(file.obj, Sections[k], pkg)
         /\ \A m \in 1..(k - 1) : ~ HasKey(file.obj, Sections[m], pkg)
  ELSE 0

\* C21: getCurrentVersion(pkg) returns the first section, in the order
\* dependencies, devDependencies, peerDependencies, that contains pkg as a
\* key, with the version declared there; it returns null when the manifest
\* is missing, is not parsable, or pkg is in none of the three sections.
C21_FirstSectionWithKey ==
  mcall.op = "getCurrentVersion" =>
    LET k == FirstSectionWithKey(mcall.before, mcall.pkg)
    IN  IF k = 0
        THEN mcall.info = NullInfo
        ELSE /\ mcall.info.found
             /\ mcall.info.section = Sections[k]
             /\ mcall.info.version = mcall.before.obj[Sections[k]].deps[mcall.pkg].v

\* C22: an edit made for index i of the request sets the entry of
\* packages[i], in the section getCurrentVersion returns for it, to exactly
\* versions[i], after packages[i] was compared against versions[i] and found
\* lower; every other key, section and value of the manifest, and every
\* other repository, is as before.
C22_EditFrame ==
  [][(pc = "analyzePkg" /\ idx' = idx + 1 /\ disk'[cur].workFile # disk[cur].workFile) =>
       LET pkg == packages[idx]
           old == disk[cur].workFile
           new == disk'[cur].workFile
           info == getCurrentVersion(old, pkg)
       IN  /\ info.found
           /\ Parses(info.version) /\ Parses(versions[idx])
           /\ ~ TupleGte(Tuple(info.version), Tuple(versions[idx]))
           /\ new.kind = "json"
           /\ new.obj[info.section].deps[pkg] = Entry(versions[idx])
           /\ \A s \in SectionNames :
                /\ new.obj[s].present = old.obj[s].present
                /\ \A p \in Pkgs :
                     << s, p >> # << info.section, pkg >> =>
                       new.obj[s].deps[p] = old.obj[s].deps[p]
           /\ \A r \in Repos \ {cur} : disk'[r] = disk[r]
           /\ log' = Append(log, EvArg("write package.json", TRUE, pkg))]_vars

\* the second package of the request was rewritten in the section that
\* declares it, the first one was left alone
C22_Witness ==
  /\ Len(packages) = 2
  /\ pc = "analyzePkg" /\ idx = 3
  /\ LastEv = EvArg("write package.json", TRUE, packages[2])
  /\ packages[1] \in Pkgs /\ packages[2] \in Pkgs
  /\ D.workFile.kind = "json" /\ D.mainFile.kind = "json"
  /\ \E s \in SectionNames :
       /\ D.workFile.obj[s].deps[packages[2]] = Entry(versions[2])
       /\ D.mainFile.obj[s].deps[packages[2]] # Entry(versions[2])
       /\ \A t \in SectionNames :
            D.workFile.obj[t].deps[packages[1]] = D.mainFile.obj[t].deps[packages[1]]

\* pkg is a key of none of the three sections of the manifest
Absent(file, pkg) ==
  file.kind = "json" /\ \A s \in SectionNames : ~ HasKey(file.obj, s, pkg)

\* C23: a requested package that is in none of the three sections of the
\* manifest causes no manifest write and does not end the package loop; when
\* every requested package is absent, a run whose preparation succeeded ends
\* with no changes found, returns true and creates no PR.
C23_SkipOnMissing ==
  /\ \A k \in 1..Len(packages) :
       Absent(D.mainFile, packages[k]) =>
         /\ \A j \in 1..Len(log) :
              log[j].op = "write package.json" => log[j].arg # packages[k]
         /\ \A s \in SectionNames : ~ HasKey(D.workFile.obj, s, packages[k])
         /\ (pc = "returned" /\ diag = "Error processing repository" /\ D.exists) => idx # k
  /\ (/\ \A k \in 1..Len(packages) : Absent(D.mainFile, packages[k])
      /\ pc = "returned"
      /\ Done("git checkout -b", TRUE)) =>
       /\ Outcome(log) = "NoChanges"
       /\ ret = "true"
       /\ ~ Issued("gh pr create")
       /\ D.prs = << >>

\* C24: in a repository without package.json every requested package
\* resolves to NotFound: no manifest and no backup is created or written,
\* updateSuccess stays false, no removal of node_modules and no npm install
\* is issued, and the run goes on to the change detection.
C24_NoManifest ==
  (D.mainFile.kind = "missing" /\ Done("git checkout -b", TRUE)) =>
    /\ D.workFile.kind = "missing"
    /\ ~ D.bak
    /\ ~ Issued("write package.json") /\ ~ Issued("cp package.json.bak")
    /\ ~ updateSuccess
    /\ updatedPackages = << >>
    /\ \A k \in 1..Len(packages) :
         Resolution(D.workFile, packages[k], versions[k]) = "NotFound"
    /\ \A op \in InstallOps : ~ Issued(op)
    /\ pc # "analyze" => (pc = "diff" \/ (Len(log) >= 6 /\ log[6] = Ev("git diff", TRUE)))

\* the change detection ran right after the branch was created
C24_Witness ==
  /\ D.mainFile.kind = "missing"
  /\ Done("git checkout -b", TRUE)
  /\ Len(log) >= 6
  /\ log[6] = Ev("git diff", TRUE)
  /\ D.workFile.kind = "missing"

\* C25: for a current and a target version that carry ^, ~, = or no prefix,
\* versionIsHigherOrEqual gives the same result (the same boolean, or the
\* same exception) as on the two strings without their prefixes, which is
\* the result of semver.gte on the strings without their prefixes.
C25_PrefixInvariance ==
  vcall.op = "versionIsHigherOrEqual" =>
    /\ vcall.res = vcall.bare
    /\ vcall.res = SemverGte(vcall.cb, vcall.tb)

\* ^1.0.0 against ~1.0.0: equal, whatever the prefixes
C25_Witness ==
  /\ vcall.op = "versionIsHigherOrEqual"
  /\ vcall.cp = << "^" >> /\ vcall.tp = << "~" >>
  /\ vcall.cb = vcall.tb
  /\ SemverValid(vcall.cb)
  /\ ~ vcall.res.threw /\ vcall.res.value

\* a version of one to three numeric components
IsNumericBody(b) ==
  LET parts == SplitDots(b)
  IN  Len(parts) <= 3 /\ \A k \in 1..Len(parts) : IsNumericId(parts[k])

\* major, minor, patch with a missing component taken as zero
PaddedTuple(b) ==
  LET parts == SplitDots(b)
  IN  [k \in 1..3 |-> IF k <= Len(parts) THEN NumVal(parts[k]) ELSE 0]

\* C26: versionIsHigherOrEqual(current, target) returns true if and only if
\* the current version without its prefix is greater than or equal to the
\* target without its prefix in major.minor.patch order, each component
\* compared as a number and a missing component taken as zero.
C26_NumericOrder ==
  (/\ vcall.op = "versionIsHigherOrEqual"
   /\ IsNumericBody(vcall.cb) /\ IsNumericBody(vcall.tb)) =>
    /\ ~ vcall.res.threw
    /\ vcall.res.value = TupleGte(PaddedTuple(vcall.cb), PaddedTuple(vcall.tb))

\* C27: when 'git reset --hard HEAD' fails because the directory is no git
\* working tree, updateRepo ends there and returns false: the checkout of
\* main and every later step are not attempted.
C27_ResetIsGate ==
  (Done("git reset", FALSE) /\ ~ D.git) =>
    /\ pc = "returned"
    /\ ret = "false"
    /\ LastEv = Ev("git reset", FALSE)
    /\ ~ Issued("git checkout main")

\* C28: within updatePackages at most one updateRepo call is active at a
\* time: a call is active only while the loop awaits it, the next call
\* starts from the directory the batch started in, after the previous one
\* returned and restored it, and while a call is past its chdir and has not
\* returned the process working directory is the path of its repository.
C28_Sequential ==
  /\ pc # "idle" => bpc = "await"
  /\ Len(invoked) = Len(results) + (IF bpc = "await" THEN 1 ELSE 0)
  /\ bpc # "await" => cwd = StartDir
  /\ pc = "enter" => cwd = StartDir /\ originalDir = StartDir
  /\ pc \notin {"idle", "enter", "returned"} => cwd = cur /\ cur = repos[ri]
  /\ pc = "returned" => cwd = StartDir

\* the second repository of the batch is being processed in its own
\* directory after the first one failed
C28_Witness ==
  /\ Len(results) = 1
  /\ ~ results[1].success
  /\ pc = "pull"
  /\ cur = repos[2] /\ repos[1] # repos[2]
  /\ cwd = cur
  /\ disk[repos[1]].branch = "feature"

\* C29: when every external command eventually exits, every updateRepo call
\* eventually returns, with true after a pull request or a cleanup and with
\* false on a failure path, and every updatePackages call whose
\* preconditions pass eventually prints a summary with one line per
\* repository and returns true, however many repositories failed.
C29_Terminates ==
  /\ [](pc = "returned" =>
          /\ ret \in {"true", "false"}
          /\ Outcome(log) \in {"PrCreated", "NoChanges", "Failed"}
          /\ (ret = "true") = (Outcome(log) # "Failed"))
  /\ (pc = "enter") ~> (pc = "returned")
  /\ (bpc = "start" /\ PreconditionsPass) ~>
       (bpc = "done" /\ bret = "true" /\ Len(summary) = Len(repos))

\* a batch of three repositories that all failed, and its summary
C29_Witness ==
  /\ bpc = "done"
  /\ bret = "true"
  /\ Len(repos) = 3
  /\ Len(summary) = 3
  /\ \A k \in 1..3 : outcomes[k] = "Failed" /\ summary[k].line = "Failed"

\* C30: executeCommand resolves its promise exactly once, when the child
\* closes, whatever the exit code: success is true exactly for exit code 0,
\* and the output is everything the child wrote to stdout and stderr, in the
\* order it was written.
C30_ResolvesOnce ==
  /\ (proc.state \in {"none", "running"} => proc.resolved = 0)
  /\ (proc.state = "closed" =>
        /\ proc.resolved = 1
        /\ proc.result.success = (proc.code = 0)
        /\ proc.result.output = [k \in 1..Len(proc.written) |-> proc.written[k].text])

\* a child that wrote to both streams and exited with code 1
C30_Witness ==
  /\ proc.state = "closed"
  /\ proc.code = 1
  /\ proc.resolved = 1
  /\ ~ proc.result.success
  /\ \E j, k \in 1..Len(proc.written) :
       proc.written[j].stream = "stdout" /\ proc.written[k].stream = "stderr"
  /\ Len(proc.result.output) = Len(proc.written)

\* C31: every updateRepo call of one updatePackages call is given the same
\* branch name, update-packages-<timestamp>, with the timestamp taken once,
\* when the preconditions passed, however much time passes between the
\* repositories.
C31_OneBranchName ==
  /\ Len(branches) = Len(invoked)
  /\ \A k \in 1..Len(branches) :
       /\ branches[k] = branches[1]
       /\ branches[k].prefix = "update-packages-"
       /\ branches[k].stamp = timestamp
  /\ (Len(branches) > 0 => timestamp # NoStamp /\ timestamp <= Stamp(now))

\* three repositories were started, the last one in a later second than the
\* one the timestamp was taken in
C31_Witness ==
  /\ Len(branches) = 3
  /\ bpc = "await" /\ pc = "enter"
  /\ Stamp(now) > timestamp
  /\ branches[3].stamp = timestamp

\* C32: in every repository, whatever was staged by a run is package.json or
\* package-lock.json: the backup file and untracked files of the working
\* tree are never in the index, and every git add names exactly the two
\* manifest paths, never the whole tree.
C32_StagesOnlyManifests ==
  \A r \in Repos :
    /\ disk[r].index \subseteq {"package.json", "package-lock.json"}
    /\ "package.json.bak" \notin disk[r].index
    /\ disk[r].index \cap LocalArtifacts = {}
    /\ "." \notin disk[r].pathspec
    /\ (disk[r].pathspec # {} =>
          disk[r].pathspec = {"package.json", "package-lock.json"})

\* both manifest files were staged while an untracked file lay in the
\* working tree
C32_Witness ==
  /\ pc = "commit"
  /\ LastEv = Ev("git add", TRUE)
  /\ D.index = {"package.json", "package-lock.json"}
  /\ "notes.txt" \in WorkTreeChanges(D)

\* C35: git push and gh pr create are attempted only after git add and git
\* commit both exited 0; a failed git add or git commit is the last operation
\* of its run, which returns false.
C35_CommitIsGate ==
  /\ \A k \in 1..Len(log) :
       log[k].op \in {"git push", "gh pr create"} =>
         /\ \E i \in 1..(k - 1) : log[i] = Ev("git add", TRUE)
         /\ \E j \in 1..(k - 1) : log[j] = Ev("git commit", TRUE)
  /\ \A k \in 1..Len(log) :
       (log[k].op \in {"git add", "git commit"} /\ ~ log[k].ok) => k = Len(log)
  /\ (pc = "returned" /\ (Done("git add", FALSE) \/ Done("git commit", FALSE))) =>
       ret = "false"

\* C37: a failed install is the last operation of its run: the run returns
\* false with the feature branch checked out and the edited package.json
\* uncommitted in the working tree, and nothing after the branch creation
\* checked out main, reset the tree or deleted the branch.  A later run on
\* the same repository whose reset and checkout of main succeed starts from
\* main with package.json as committed there.
C37_NoCleanupAfterInstallFailure ==
  /\ \A k \in 1..Len(log) :
       (log[k].op \in {"npm install --force", "npm install"} /\ ~ log[k].ok) =>
         /\ k = Len(log)
         /\ pc = "returned" /\ ret = "false"
         /\ D.branch = "feature" /\ D.featureExists
         /\ D.workFile.kind = "json"
         /\ D.workFile # HeadFile(D)
         /\ \E b \in 1..k :
              /\ log[b] = Ev("git checkout -b", TRUE)
              /\ \A j \in (b + 1)..k :
                   log[j].op \notin {"git checkout main", "git reset", "git branch -D"}
  /\ (/\ Len(log) = 3
      /\ log[2] = Ev("git reset", TRUE)
      /\ log[3] = Ev("git checkout main", TRUE)) =>
       /\ D.branch = "main"
       /\ D.workFile = D.mainFile
       /\ ~ D.staged /\ ~ D.lockDirty

\* the second run on a repository whose first run failed in an install: the
\* reset and the checkout of main have put the committed package.json back,
\* the branch of the first run still exists
C37_Witness ==
  /\ repos = << "r1", "r1" >> /\ ri = 2
  /\ outcomes = << "Failed" >>
  /\ D.featureExists /\ ~ D.nodeModules
  /\ Len(log) = 3
  /\ log[2] = Ev("git reset", TRUE)
  /\ log[3] = Ev("git checkout main", TRUE)
  /\ D.branch = "main" /\ D.workFile = D.mainFile

\* C38: once a run has left the Analyze & Update stage, on whatever path,
\* package.json.bak does not exist, and if no edit succeeded package.json
\* is what it was when the stage began (the file main has, which the new
\* branch started from).
C38_BackupDiscipline ==
  (/\ Done("git checkout -b", TRUE)
   /\ pc \notin {"idle", "analyze", "analyzePkg"}) =>
    /\ ~ D.bak
    /\ (~ Done("write package.json", TRUE) => D.workFile = D.mainFile)

C36_ShFallbackOrder ==
  (/\ vcall.op = "version_is_higher_or_equal"
   /\ IsNumericBody(vcall.cb) /\ IsNumericBody(vcall.tb)) =>
    vcall.res.value = TupleGte(PaddedTuple(vcall.cb), PaddedTuple(vcall.tb))

\* the URLs a response shows, in its list or in the output it quotes
Shown(resp) ==
  {resp.prUrls[k] : k \in 1..Len(resp.prUrls)}
    \cup {resp.fullOutput[k][1].v :
            k \in {n \in 1..Len(resp.fullOutput) : resp.fullOutput[n][1].kind = "url"}}

\* C33: a failing update_repo does not end the script: once the script has
\* exited, update_repo was called for every repository of the request, and
\* the tool's response shows the pull request of every repository that got
\* one.
C33_ScriptIsolatesFailures ==
  /\ (sh.pc \in {"exited", "responded"} /\ ToolInputValid /\ ghLoggedIn) =>
       sh.processed = repos
  /\ sh.pc = "responded" =>
       \A k \in 1..Len(sh.created) : sh.created[k] \in Shown(sh.resp)

\* C34: the response of the tool shows the URL of every pull request the
\* script created in that call, and the number of successful PRs it reports
\* is the number of pull requests created.
C34_ReturnsPrUrls ==
  sh.pc = "responded" =>
    /\ \A k \in 1..Len(sh.created) : sh.created[k] \in Shown(sh.resp)
    /\ sh.resp.successfulPRs = Len(sh.created)

\* C40: updatePackages runs only after the user confirmed; a declined
\* confirmation exits with code 0 with no repository touched; and the
\* program prints 'Package update process completed successfully.' only
\* when updatePackages passed its preconditions and returned true.
C40_CliReportsTruthfully ==
  /\ (bpc # "start" \/ invoked # << >>) => cli.confirmed
  /\ (cli.pc = "exited" /\ cli.message = "Operation cancelled.") =>
       /\ cli.code = 0
       /\ bpc = "start" /\ invoked = << >> /\ log = << >>
       /\ \E d \in InitialDisks : disk = FirstRepoHolds(d)
  /\ (cli.message = "Package update process completed successfully.") =>
       /\ bret = "true"
       /\ PreconditionsPass

====
